---- MODULE Spec2Model ----
(***************************************************************************)
(* Model of lovsang-to-slides (src/app.py): the text pipeline              *)
(* chordpro_to_plain -> split_groups -> clean_group -> chunk_even ->       *)
(* deck assembly in generate, and the build / preview handlers around the  *)
(* process-wide builds mapping.                                            *)
(*                                                                         *)
(* Text is a sequence of one-character strings.  A line is such a          *)
(* sequence without "\n"; a document is one with "\n" in it.               *)
(***************************************************************************)
EXTENDS Integers, Sequences, FiniteSets, TLC

VARIABLES
    call,    \* the call or request being served: a record with field fn
    ret,     \* what it returned (NoRet until it has returned)
    builds,  \* app.py:17, the global mapping build_id -> site_dir
    disk,    \* the mkslides_* directories under the temp dir: name -> files of its site/
    okBuilds \* history: number of builds whose builder exited zero

vars == <<call, ret, builds, disk, okBuilds>>

NoRet == [status |-> "pending"]

----------------------------------------------------------------------------
(* Bounds of the model. *)

\* longest document (in characters) given to chordpro_to_plain on its own
MaxDocLen == 5
\* longest list of lines given to split_groups on its own
MaxLines == 6
\* longest group given to chunk_even on its own, and largest max_lines tried
MaxGroup == 7
\* most URL lines in one generate request
MaxUrls == 2
\* most document lines served, in all, to one generate request
MaxServed == 3
\* largest max_lines of a generate request, besides the default
MaxMaxl == 2
\* most mkslides_* directories the temp dir holds
MaxBuilds == 3

\* the default of the max_lines form field
DefaultMaxLines == 5

----------------------------------------------------------------------------
(* Python string primitives, on sequences of characters. *)

NL == "\n"

\* str.strip() with no argument removes whitespace; of the characters the
\* model uses, these are whitespace.
IsSpace(c) == c \in {" ", NL}

RECURSIVE lstrip(_)
lstrip(s) ==
    IF s = <<>> THEN s
    ELSE IF IsSpace(Head(s)) THEN lstrip(Tail(s)) ELSE s

RECURSIVE rstrip(_)
rstrip(s) ==
    IF s = <<>> THEN s
    ELSE IF IsSpace(s[Len(s)]) THEN rstrip(SubSeq(s, 1, Len(s) - 1)) ELSE s

strip(s) == rstrip(lstrip(s))

startswith(s, c) == Len(s) >= 1 /\ s[1] = c
endswith(s, c) == Len(s) >= 1 /\ s[Len(s)] = c

\* least index i >= from with s[i] = c, or 0 when there is none
FirstIdx(s, c, from) ==
    LET hits == {i \in from..Len(s) : s[i] = c}
    IN  IF hits = {} THEN 0 ELSE CHOOSE i \in hits : \A j \in hits : i <= j

\* str.splitlines(), for text whose only line boundary is "\n": a trailing
\* newline opens no further line, and the empty text has no line.
RECURSIVE splitlines(_)
splitlines(s) ==
    IF s = <<>> THEN <<>>
    ELSE LET i == FirstIdx(s, NL, 1)
         IN  IF i = 0 THEN <<s>>
             ELSE <<SubSeq(s, 1, i - 1)>> \o splitlines(SubSeq(s, i + 1, Len(s)))

\* sep.join(parts)
RECURSIVE join(_, _)
join(sep, parts) ==
    IF parts = <<>> THEN <<>>
    ELSE IF Len(parts) = 1 THEN parts[1]
    ELSE parts[1] \o sep \o join(sep, Tail(parts))

----------------------------------------------------------------------------
(* chordpro_to_plain, app.py:35-44 *)

\* [^\]]+\] tried at index b: one or more characters other than "]", taken
\* greedily, then "]".  The index of that "]", or 0 when there is no match.
BodyThenClose(s, b, close) ==
    LET q == FirstIdx(s, close, b)
    IN  IF q > b THEN q ELSE 0

\* \[/?[^\]]+\] tried at index p: the index of the last matched character,
\* or 0.  The optional "/" is tried taken first, then left out.
ChordMatchEnd(s, p) ==
    IF s[p] # "[" THEN 0
    ELSE LET taken == IF p + 1 <= Len(s) /\ s[p + 1] = "/"
                      THEN BodyThenClose(s, p + 2, "]") ELSE 0
         IN  IF taken # 0 THEN taken ELSE BodyThenClose(s, p + 1, "]")

\* <[^>]+> tried at index p
TagMatchEnd(s, p) ==
    IF s[p] # "<" THEN 0 ELSE BodyThenClose(s, p + 1, ">")

\* re.sub(r"\[/?[^\]]+\]", "", ln): leftmost non-overlapping matches, from p on
RECURSIVE SubChordsFrom(_, _)
SubChordsFrom(s, p) ==
    IF p > Len(s) THEN <<>>
    ELSE LET q == ChordMatchEnd(s, p)
         IN  IF q # 0 THEN SubChordsFrom(s, q + 1)
             ELSE <<s[p]>> \o SubChordsFrom(s, p + 1)

\* re.sub(r"<[^>]+>", "", ln)
RECURSIVE SubTagsFrom(_, _)
SubTagsFrom(s, p) ==
    IF p > Len(s) THEN <<>>
    ELSE LET q == TagMatchEnd(s, p)
         IN  IF q # 0 THEN SubTagsFrom(s, q + 1)
             ELSE <<s[p]>> \o SubTagsFrom(s, p + 1)

\* a variant that looks at the opening brace only
IsDirectiveByOpening(ln) == startswith(ln, "{")

IsDirective(ln) == startswith(ln, "{") /\ endswith(ln, "}")

\* the body of the loop for one line that is not skipped (lines 41-42)
PlainOf(ln) == SubTagsFrom(SubChordsFrom(ln, 1), 1)

RECURSIVE PlainLines(_)
PlainLines(lines) ==
    IF lines = <<>> THEN <<>>
    ELSE LET ln == strip(Head(lines))
         IN  IF IsDirective(ln) THEN PlainLines(Tail(lines))
             ELSE <<PlainOf(ln)>> \o PlainLines(Tail(lines))

chordpro_to_plain(cp) == PlainLines(splitlines(cp))

----------------------------------------------------------------------------
(* split_groups, app.py:46-57 *)

\* a variant that closes the buffer without asking whether it holds a line
CloseBufUnguarded(groups, buf) == Append(groups, buf)

\* "if buf: groups.append(buf)", lines 50-51 and 55-56
CloseBuf(groups, buf) == IF buf # <<>> THEN Append(groups, buf) ELSE groups

RECURSIVE GroupsLoop(_, _, _)
GroupsLoop(lines, groups, buf) ==
    IF lines = <<>> THEN CloseBuf(groups, buf)
    ELSE IF Head(lines) = <<>>
         THEN GroupsLoop(Tail(lines), CloseBuf(groups, buf), <<>>)
         ELSE GroupsLoop(Tail(lines), groups, Append(buf, Head(lines)))

split_groups(lines) == GroupsLoop(lines, <<>>, <<>>)

----------------------------------------------------------------------------
(* clean_group, app.py:59-60 *)

HasColon(ln) == \E i \in 1..Len(ln) : ln[i] = ":"

\* a variant that keeps every line
KeepLineAlways(ln) == TRUE

KeepLine(ln) == ~HasColon(ln)

clean_group(g) == SelectSeq(g, KeepLine)

----------------------------------------------------------------------------
(* chunk_even, app.py:62-74 *)

\* math.ceil(n / maxl) for n >= 0 and maxl >= 1; the float quotient is exact
\* enough at these sizes for the ceiling to be the integer one
\* variants: the quotient rounded down, and the remainder never handed out
FloorDiv(n, maxl) == n \div maxl

ChunkSizeBase(base, rem, i) == base

CeilDiv(n, maxl) == (n + maxl - 1) \div maxl

ChunkSize(base, rem, i) == base + (IF i < rem THEN 1 ELSE 0)

\* the loop of lines 70-73, i counting from 0
RECURSIVE ChunkLoop(_, _, _, _, _, _)
ChunkLoop(g, num, base, rem, i, idx) ==
    IF i >= num THEN <<>>
    ELSE LET sz == ChunkSize(base, rem, i)
         IN  <<SubSeq(g, idx + 1, idx + sz)>>
                 \o ChunkLoop(g, num, base, rem, i + 1, idx + sz)

chunk_even(g, maxl) ==
    LET n == Len(g)
    IN  IF n <= maxl THEN <<g>>
        ELSE LET num  == CeilDiv(n, maxl)
                 base == n \div num
                 rem  == n % num
             IN  ChunkLoop(g, num, base, rem, 0, 0)

----------------------------------------------------------------------------
(* The pages and documents a request fetches.  What a URL serves is outside *)
(* the program, so each URL line of a request comes with what the two GETs  *)
(* made for it will meet: the status of the page, whether the page body     *)
(* holds initializeSongPage("....txt"), the status of the document and its  *)
(* text.                                                                    *)

Site(page, ref, doc, text) == [page |-> page, ref |-> ref, doc |-> doc, text |-> text]

NoSite == Site(0, FALSE, 0, <<>>)

UrlLine(line, site) == [line |-> line, site |-> site]

\* requests' Response.raise_for_status(): HTTPError for 4xx and 5xx only
RaisesForStatus(status) == 400 <= status /\ status < 600

Ok(v) == [err |-> "none", value |-> v]
Raised(e) == [err |-> e, value |-> <<>>]

\* fetch_chordpro_url, app.py:21-27: the value is the .txt URL, here the site
\* it leads to
fetch_chordpro_url(site) ==
    IF RaisesForStatus(site.page) THEN Raised("HTTPError")
    ELSE IF ~site.ref THEN Raised("abort400")
    ELSE Ok(site)

\* download_chordpro, app.py:29-33
download_chordpro(site) ==
    IF RaisesForStatus(site.doc) THEN Raised("HTTPError")
    ELSE Ok(site.text)

----------------------------------------------------------------------------
(* generate, app.py:82-109 *)

Separator == <<"-", "-", "-">>

FirstBlock == Separator \o <<NL>>                \* "---\n", line 86
SepBlock == <<NL>> \o Separator \o <<NL>>      \* "\n---\n", line 106

\* a variant with one trailing space
HardBreakOneSpace(ln) == ln \o <<" ">>

\* ln + "  "
HardBreak(ln) == ln \o <<" ", " ">>

\* "\n".join(ln + "  " for ln in chunk), line 104
RenderChunk(chunk) == join(<<NL>>, [i \in 1..Len(chunk) |-> HardBreak(chunk[i])])

\* lines 102-106 for the chunks of one group
RECURSIVE ChunkBlocks(_)
ChunkBlocks(chunks) ==
    IF chunks = <<>> THEN <<>>
    ELSE <<RenderChunk(Head(chunks)), SepBlock>> \o ChunkBlocks(Tail(chunks))

\* a variant that skips no group
SkipGroupNever(cg) == FALSE

\* line 100: "if not cg: continue"
SkipGroup(cg) == cg = <<>>

\* lines 98-106 for the groups of one document.  acc.blocks is md_blocks;
\* acc.handed and acc.chunks keep, for the record, every group passed to
\* chunk_even and every chunk it returned.
RECURSIVE GroupLoop(_, _, _)
GroupLoop(groups, maxl, acc) ==
    IF groups = <<>> THEN acc
    ELSE LET cg == clean_group(Head(groups))
         IN  IF SkipGroup(cg) THEN GroupLoop(Tail(groups), maxl, acc)
             ELSE LET chunks == chunk_even(cg, maxl)
                  IN  GroupLoop(Tail(groups), maxl,
                          [acc EXCEPT !.blocks = @ \o ChunkBlocks(chunks),
                                      !.handed = Append(@, cg),
                                      !.chunks = @ \o chunks])

\* the response of a request that an exception ended: abort(400, message)
\* is a 400 carrying the message; an exception nothing catches is Flask's
\* 500 Internal Server Error
Failure(err, acc) ==
    [status  |-> IF err = "abort400" THEN 400 ELSE 500,
     message |-> IF err = "abort400" THEN "Fant ingen ChordPro-tekst" ELSE "",
     body    |-> <<>>,
     fetched |-> acc.fetched,
     groups  |-> acc.groups,
     handed  |-> acc.handed,
     chunks  |-> acc.chunks]

\* line 108 and the page rendered around the deck
Deck(acc) ==
    [status  |-> 200,
     message |-> "",
     body    |-> strip(join(<<NL>>, acc.blocks)),
     fetched |-> acc.fetched,
     groups  |-> acc.groups,
     handed  |-> acc.handed,
     chunks  |-> acc.chunks]

\* lines 88-106.  acc.fetched keeps every GET made: <<url, "page">> or
\* <<url, "txt">>.
RECURSIVE UrlLoop(_, _, _)
UrlLoop(urls, maxl, acc) ==
    IF urls = <<>> THEN Deck(acc)
    ELSE LET url == strip(Head(urls).line)
             site == Head(urls).site
         IN  IF url = <<>> THEN UrlLoop(Tail(urls), maxl, acc)
             ELSE LET acc1 == [acc EXCEPT !.fetched = Append(@, <<url, "page">>)]
                      txt  == fetch_chordpro_url(site)
                  IN  IF txt.err # "none" THEN Failure(txt.err, acc1)
                      ELSE LET acc2 == [acc1 EXCEPT !.fetched = Append(@, <<url, "txt">>)]
                               cp   == download_chordpro(txt.value)
                           IN  IF cp.err # "none" THEN Failure(cp.err, acc2)
                               ELSE LET groups == split_groups(chordpro_to_plain(cp.value))
                                    IN  UrlLoop(Tail(urls), maxl,
                                            GroupLoop(groups, maxl,
                                                [acc2 EXCEPT !.groups = @ \o groups]))

generate(urls, maxl) ==
    UrlLoop(urls, maxl,
            [blocks |-> <<FirstBlock>>, fetched |-> <<>>, groups |-> <<>>,
             handed |-> <<>>, chunks |-> <<>>])

----------------------------------------------------------------------------
(* The application state outside a request, and what every call leaves alone *)

EmptyMap == [x \in {} |-> x]

AppIdle == builds = EmptyMap /\ disk = EmptyMap /\ okBuilds = 0

AppUnchanged == UNCHANGED <<builds, disk, okBuilds>>

Returned(v) == [status |-> "returned", value |-> v]

\* all sequences over S of length lo..hi
SeqsOf(S, lo, hi) == UNION {[1..n -> S] : n \in lo..hi}

----------------------------------------------------------------------------
(* chunk_even on its own: every group of 1..MaxGroup lines, every max_lines *)

ChunkLineMenu == {<<"a">>, <<"b">>}

InitChunk ==
    /\ \E g \in SeqsOf(ChunkLineMenu, 1, MaxGroup), maxl \in 1..MaxGroup :
           call = [fn |-> "chunk_even", g |-> g, maxl |-> maxl]
    /\ ret = NoRet
    /\ AppIdle

CallChunkEven ==
    /\ call.fn = "chunk_even"
    /\ ret = NoRet
    /\ ret' = Returned(chunk_even(call.g, call.maxl))
    /\ UNCHANGED call
    /\ AppUnchanged

SpecChunk == InitChunk /\ [][CallChunkEven]_vars

----------------------------------------------------------------------------
(* chordpro_to_plain on its own: every document of up to MaxDocLen characters *)

StripAlphabet == {"[", "]", "<", ">", "{", "}", "/", " ", "a", NL}

InitStrip ==
    /\ \E cp \in SeqsOf(StripAlphabet, 0, MaxDocLen) :
           call = [fn |-> "chordpro_to_plain", cp |-> cp]
    /\ ret = NoRet
    /\ AppIdle

CallChordproToPlain ==
    /\ call.fn = "chordpro_to_plain"
    /\ ret = NoRet
    /\ ret' = Returned(chordpro_to_plain(call.cp))
    /\ UNCHANGED call
    /\ AppUnchanged

SpecStrip == InitStrip /\ [][CallChordproToPlain]_vars

----------------------------------------------------------------------------
(* split_groups on its own: every list of up to MaxLines lines.  The lines  *)
(* are what chordpro_to_plain can emit: empty, text, or blanks only.        *)

GroupLineMenu == {<<>>, <<"a">>, <<"b">>, <<" ">>}

InitGroups ==
    /\ \E lines \in SeqsOf(GroupLineMenu, 0, MaxLines) :
           call = [fn |-> "split_groups", lines |-> lines]
    /\ ret = NoRet
    /\ AppIdle

CallSplitGroups ==
    /\ call.fn = "split_groups"
    /\ ret = NoRet
    /\ ret' = Returned(split_groups(call.lines))
    /\ UNCHANGED call
    /\ AppUnchanged

SpecGroups == InitGroups /\ [][CallSplitGroups]_vars

----------------------------------------------------------------------------
(* generate on its own: one request, its URL lines and what they serve.    *)

GenLineMenu == {<<>>, <<"a">>, <<"c">>, <<"b", ":">>}

\* the documents of exactly k lines
DocsOfLines(k) == {join(<<NL>>, ls) : ls \in [1..k -> GenLineMenu]}

UrlText == <<" ", "u", " ">>

\* the URL lines that serve no document line: blank lines, and URLs whose
\* page or document fails, or whose document is empty
BareUrlLines ==
    {UrlLine(<<>>, NoSite), UrlLine(<<" ">>, NoSite)}
    \cup {UrlLine(UrlText, st) :
            st \in {Site(404, FALSE, 0, <<>>), Site(200, FALSE, 0, <<>>),
                    Site(304, FALSE, 0, <<>>), Site(200, TRUE, 404, <<>>),
                    Site(200, TRUE, 200, <<>>)}}

\* the URL lines that serve a document of k lines
UrlLinesServing(k) ==
    IF k = 0 THEN BareUrlLines
    ELSE {UrlLine(UrlText, Site(200, TRUE, doc, text)) :
            doc \in {200, 304}, text \in DocsOfLines(k)}

\* the number of document lines the URL lines serve
RECURSIVE ServedBy(_)
ServedBy(urls) ==
    IF urls = <<>> THEN 0
    ELSE Len(splitlines(Head(urls).site.text)) + ServedBy(Tail(urls))

\* the song of the end-to-end scenario: a directive line, a lyric line with
\* chords (and tags), a blank line, a metadata line and two lyric lines
SongDirectives == {<<"{", "t", "}">>, <<" ", "{", "t", ":", "x", "}">>}
SongChordLines == {<<"[", "C", "]", "a">>, <<"a", "[", "/", "C", "]", "<", "i", ">", "d">>}
SongMetaLines == {<<"V", ":">>, <<"b", ":", "c">>}
SongLyricPairs == {<<<<"c">>, <<"d">>>>, <<<<"d">>, <<"[", "G", "]", "d">>>>}

SongDocs ==
    {join(<<NL>>, <<d, c, <<>>, m>> \o ll) :
        d \in SongDirectives, c \in SongChordLines,
        m \in SongMetaLines, ll \in SongLyricPairs}

SongRequests == {<<UrlLine(UrlText, Site(200, TRUE, 200, song))>> : song \in SongDocs}

MaxlChoices == (1..MaxMaxl) \cup {DefaultMaxLines}

InitGen ==
    /\ \E urls \in {<<>>} \cup SongRequests, maxl \in MaxlChoices :
           call = [fn |-> "generate", urls |-> urls, maxl |-> maxl]
    /\ ret = NoRet
    /\ AppIdle

\* one more line in the urls field of the form, before it is posted
AddUrlLine ==
    /\ call.fn = "generate"
    /\ ret = NoRet
    /\ Len(call.urls) < MaxUrls
    /\ \E k \in 0..(MaxServed - ServedBy(call.urls)) :
           \E e \in UrlLinesServing(k) :
               call' = [call EXCEPT !.urls = Append(@, e)]
    /\ UNCHANGED ret
    /\ AppUnchanged

ServeGenerate ==
    /\ call.fn = "generate"
    /\ ret = NoRet
    /\ ret' = generate(call.urls, call.maxl)
    /\ UNCHANGED call
    /\ AppUnchanged

SpecGen == InitGen /\ [][AddUrlLine \/ ServeGenerate]_vars

----------------------------------------------------------------------------
(* The application: generate, build and preview requests in any order,     *)
(* each handler served in one step.                                        *)

TmpNames == 1..MaxBuilds

\* a variant that may return a directory that exists
mkdtempAny(d) == TmpNames

\* tempfile.mkdtemp(prefix="mkslides_"), line 118: a directory that did not
\* exist; the names it may return
mkdtemp(d) == TmpNames \ DOMAIN d

\* os.path.join(tmp_root, "site"), line 119
SiteDir(tmp_root) == <<tmp_root, "site">>

\* os.path.basename(tmp_root), line 145
BuildId(tmp_root) == tmp_root

\* what the markdown field of a build request may hold
BuildInputs == {<<>>, <<" ", NL>>, <<" ">> \o Separator \o <<NL>>}

\* the files mkslides may leave in the site directory
SiteFiles == {"slides.html", "index.html"}

\* the generate requests made to the running application
AppUrlLists ==
    {<<>>,
     <<UrlLine(UrlText, Site(404, FALSE, 0, <<>>))>>,
     <<UrlLine(UrlText, Site(200, TRUE, 200, <<"a">>))>>}

Init ==
    /\ call = [fn |-> "none"]
    /\ ret = NoRet
    /\ AppIdle

Generate ==
    /\ \E urls \in AppUrlLists :
           /\ call' = [fn |-> "generate", urls |-> urls, maxl |-> DefaultMaxLines]
           /\ ret' = generate(urls, DefaultMaxLines)
    /\ AppUnchanged

\* build, app.py:111-147
Build ==
    \E markdown \in BuildInputs :
        /\ call' = [fn |-> "build", markdown |-> markdown]
        /\ LET md == strip(markdown)
           IN  IF md = <<>>
               THEN /\ ret' = [status |-> 400, message |-> "Ingen markdown mottatt"]
                    /\ AppUnchanged
               ELSE \E tmp_root \in mkdtemp(disk) :
                        \/ \E files \in SUBSET SiteFiles :
                               \* mkslides exits zero, lines 145-147
                               /\ disk' = [n \in DOMAIN disk \cup {tmp_root} |->
                                              IF n = tmp_root THEN files ELSE disk[n]]
                               /\ builds' = [b \in DOMAIN builds \cup {BuildId(tmp_root)} |->
                                                IF b = BuildId(tmp_root) THEN SiteDir(tmp_root)
                                                ELSE builds[b]]
                               /\ okBuilds' = okBuilds + 1
                               /\ ret' = [status |-> 302, location |-> BuildId(tmp_root)]
                        \/ \* mkslides exits non-zero, lines 134-142: the
                           \* directory is removed again
                           /\ ret' = [status |-> 500, message |-> "Build error"]
                           /\ AppUnchanged

\* the first of slides.html, index.html that exists in root, lines 157-160
DefaultDocument(files) ==
    IF "slides.html" \in files THEN "slides.html"
    ELSE IF "index.html" \in files THEN "index.html"
    ELSE ""

\* preview, app.py:149-161
Preview ==
    /\ \E build_id \in TmpNames \cup {0}, path \in SiteFiles \cup {"", "x.css"} :
           /\ call' = [fn |-> "preview", build_id |-> build_id, path |-> path]
           /\ IF build_id \notin DOMAIN builds
              THEN ret' = [status |-> 404, file |-> ""]
              ELSE LET files == disk[builds[build_id][1]]
                       fn    == IF path = "" THEN DefaultDocument(files)
                                ELSE IF path \in files THEN path ELSE ""
                   IN  ret' = [status |-> IF fn = "" THEN 404 ELSE 200, file |-> fn]
    /\ AppUnchanged

Next == Generate \/ Build \/ Preview

Spec == Init /\ [][Next]_vars

----------------------------------------------------------------------------
(* Claims about chunk_even (SpecChunk) *)

RECURSIVE Flatten(_)
Flatten(ss) == IF ss = <<>> THEN <<>> ELSE Head(ss) \o Flatten(Tail(ss))

ChunkReturned == call.fn = "chunk_even" /\ ret # NoRet

\* C1: concatenating the chunks chunk_even returns, in order, gives back the
\* group: no line is dropped, duplicated or reordered.
C1_RoundTrip == ChunkReturned => Flatten(ret.value) = call.g

\* a group that is split into several chunks has been put back together
C1_Witness ==
    /\ ChunkReturned
    /\ Len(ret.value) >= 3
    /\ Flatten(ret.value) = call.g
    /\ \E i, j \in 1..Len(call.g) : call.g[i] # call.g[j]

\* the least k with k * maxl >= n
CeilOf(n, maxl) == CHOOSE k \in 0..n : k * maxl >= n /\ \A j \in 0..n : j * maxl >= n => k <= j

\* C2: chunk_even returns ceil(n / maxLines) chunks, none longer than
\* maxLines; the first n mod numChunks of them have n div numChunks + 1
\* lines and the others n div numChunks, so sizes differ by at most 1; a
\* group of at most maxLines lines comes back as one chunk.
C2_Sizes ==
    ChunkReturned =>
        LET n    == Len(call.g)
            out  == ret.value
            num  == CeilOf(n, call.maxl)
            base == n \div num
            rem  == n % num
        IN  /\ Len(out) = num
            /\ \A i \in 1..Len(out) : Len(out[i]) <= call.maxl
            /\ \A i \in 1..Len(out) :
                   Len(out[i]) = IF i <= rem THEN base + 1 ELSE base
            /\ \A i, j \in 1..Len(out) : Len(out[i]) - Len(out[j]) <= 1
            /\ (n <= call.maxl => out = <<call.g>>)

\* the spec's example: 7 lines, maxLines 3, sizes 3, 2, 2
C2_Witness ==
    /\ ChunkReturned
    /\ Len(call.g) = 7 /\ call.maxl = 3
    /\ Len(ret.value) = 3
    /\ Len(ret.value[1]) = 3 /\ Len(ret.value[2]) = 2 /\ Len(ret.value[3]) = 2

----------------------------------------------------------------------------
(* Claims about split_groups (SpecGroups) *)

GroupsReturned == call.fn = "split_groups" /\ ret # NoRet

\* the indices at which a run of non-empty lines starts
RunStarts(lines) ==
    {i \in 1..Len(lines) : lines[i] # <<>> /\ (i = 1 \/ lines[i - 1] = <<>>)}

\* the last index of the run starting at i
RunEnd(lines, i) ==
    CHOOSE j \in i..Len(lines) :
        /\ \A m \in i..j : lines[m] # <<>>
        /\ (j = Len(lines) \/ lines[j + 1] = <<>>)

\* the start of the t-th run
NthStart(lines, t) ==
    CHOOSE i \in RunStarts(lines) :
        Cardinality({j \in RunStarts(lines) : j <= i}) = t

\* C5: for lines made of k runs of non-empty lines separated by one or more
\* empty lines, split_groups returns k groups, the i-th being the i-th run in
\* line order; no group is empty; input with no non-empty line gives none.
C5_Groups ==
    GroupsReturned =>
        LET lines  == call.lines
            groups == ret.value
            k      == Cardinality(RunStarts(lines))
        IN  /\ Len(groups) = k
            /\ \A t \in 1..Len(groups) :
                   /\ groups[t] # <<>>
                   /\ t <= k =>
                        groups[t] = SubSeq(lines, NthStart(lines, t),
                                           RunEnd(lines, NthStart(lines, t)))
            /\ ((\A i \in 1..Len(lines) : lines[i] = <<>>) => groups = <<>>)

\* two runs, the gap between them more than one empty line, the last run
\* ending the input
C5_Witness ==
    /\ GroupsReturned
    /\ Len(ret.value) = 2
    /\ Len(ret.value[1]) = 2
    /\ \E i \in 2..Len(call.lines) : call.lines[i] = <<>> /\ call.lines[i - 1] = <<>>
    /\ call.lines[1] # <<>>
    /\ call.lines[Len(call.lines)] # <<>>

----------------------------------------------------------------------------
(* Claims about chordpro_to_plain (SpecStrip) *)

StripReturned == call.fn = "chordpro_to_plain" /\ ret # NoRet

\* a line without its leading and trailing whitespace
Trimmed(s) ==
    LET ink == {i \in 1..Len(s) : ~IsSpace(s[i])}
    IN  IF ink = {} THEN <<>>
        ELSE SubSeq(s, CHOOSE i \in ink : \A j \in ink : i <= j,
                       CHOOSE i \in ink : \A j \in ink : i >= j)

DirectiveLine(s) == s # <<>> /\ s[1] = "{" /\ s[Len(s)] = "}"

NotDirectiveLine(s) == ~DirectiveLine(s)

\* the trimmed source lines that are not directives, in source order
LyricSource(cp) ==
    LET src == splitlines(cp)
    IN  SelectSeq([i \in 1..Len(src) |-> Trimmed(src[i])], NotDirectiveLine)

\* the well-formed tokens of a line: open, a non-empty content without the
\* closing character, close
TokenSpans(s, open, close) ==
    {sp \in (1..Len(s)) \X (1..Len(s)) :
        /\ s[sp[1]] = open /\ s[sp[2]] = close
        /\ sp[2] >= sp[1] + 2
        /\ \A m \in (sp[1] + 1)..(sp[2] - 1) : s[m] # close}

ChordSpans(s) == TokenSpans(s, "[", "]")
TagSpans(s) == TokenSpans(s, "<", ">")

InSpan(i, sp) == sp[1] <= i /\ i <= sp[2]

\* the characters of s at the indices in K, in order
Pick(s, K) ==
    LET F[i \in 0..Len(s)] ==
            IF i = 0 THEN <<>>
            ELSE IF i \in K THEN Append(F[i - 1], s[i]) ELSE F[i - 1]
    IN  F[Len(s)]

\* the line with every chord token and every tag token taken out
WithoutTokens(s) ==
    Pick(s, {i \in 1..Len(s) :
                ~\E sp \in ChordSpans(s) \cup TagSpans(s) : InSpan(i, sp)})

\* a chord token and a tag token of the line share a character
TokensOverlap(s) ==
    \E c \in ChordSpans(s), t \in TagSpans(s) :
        \E i \in 1..Len(s) : InSpan(i, c) /\ InSpan(i, t)

C4_Trimmed ==
    StripReturned =>
        \A i \in 1..Len(ret.value) :
            LET ln == ret.value[i]
            IN  ln # <<>> => ~IsSpace(ln[1]) /\ ~IsSpace(ln[Len(ln)])

----------------------------------------------------------------------------
(* Claims about generate (SpecGen) *)

GenReturned == call.fn = "generate" /\ ret # NoRet

ColonFree(ln) == \A i \in 1..Len(ln) : ln[i] # ":"

NonEmpty(x) == x # <<>>

\* C6: every group generate hands to chunk_even is non-empty and is the
\* lines, in order, of a split_groups group that hold no ":"; a group whose
\* lines all hold ":" is dropped and no chunk comes of it.
C6_Handed ==
    GenReturned =>
        LET cleaned == [i \in 1..Len(ret.groups) |-> SelectSeq(ret.groups[i], ColonFree)]
            kept    == SelectSeq(cleaned, NonEmpty)
        IN  /\ ret.handed = kept
            /\ \A i \in 1..Len(ret.handed) : ret.handed[i] # <<>>
            /\ \A i \in 1..Len(ret.chunks) : ret.chunks[i] # <<>>
            /\ Flatten(ret.chunks) = Flatten(kept)

\* one group of metadata lines only, dropped, and one group with a metadata
\* line among lyric lines, handed on without it
C6_Witness ==
    /\ GenReturned
    /\ ret.status = 200
    /\ \E i \in 1..Len(ret.groups) : \A j \in 1..Len(ret.groups[i]) : ~ColonFree(ret.groups[i][j])
    /\ \E i \in 1..Len(ret.groups) :
           /\ \E j \in 1..Len(ret.groups[i]) : ~ColonFree(ret.groups[i][j])
           /\ \E j \in 1..Len(ret.groups[i]) : ColonFree(ret.groups[i][j])
    /\ Len(ret.handed) = 1
    /\ Len(ret.groups) = 2

\* the lines of a text, a line ending at each "\n" and at the end
DeckLines(text) == splitlines(text)

SeparatorAt(lines) == {i \in 1..Len(lines) : lines[i] = Separator}

\* the index of the t-th separator line
NthSeparator(lines, t) ==
    CHOOSE i \in SeparatorAt(lines) :
        Cardinality({j \in SeparatorAt(lines) : j <= i}) = t

\* the lines between the t-th separator and the next, blank lines left out
SlideBlock(lines, t) ==
    SelectSeq(SubSeq(lines, NthSeparator(lines, t) + 1, NthSeparator(lines, t + 1) - 1),
              NonEmpty)

SlideBlockCount(text) == Cardinality(SeparatorAt(DeckLines(text))) - 1

\* C7: the deck generate returns starts with "---"; it holds one separator
\* more than chunks were emitted over all URLs and groups; and the blocks
\* between the separators are the chunks, in group order then chunk order,
\* every line of a chunk followed by two spaces.
C7_Deck ==
    (GenReturned /\ ret.status = 200) =>
        LET lines == DeckLines(ret.body)
        IN  /\ Len(ret.body) >= 3 /\ SubSeq(ret.body, 1, 3) = Separator
            /\ Cardinality(SeparatorAt(lines)) = Len(ret.chunks) + 1
            /\ lines[1] = Separator /\ lines[Len(lines)] = Separator
            /\ \A t \in 1..Len(ret.chunks) :
                   SlideBlock(lines, t) =
                       [j \in 1..Len(ret.chunks[t]) |-> ret.chunks[t][j] \o <<" ", " ">>]

\* two URLs, three chunks or more, some group split into several chunks
C7_Witness ==
    /\ GenReturned
    /\ ret.status = 200
    /\ Len(ret.fetched) = 4
    /\ Len(ret.chunks) >= 3
    /\ Len(ret.chunks) > Len(ret.handed)
    /\ Cardinality(SeparatorAt(DeckLines(ret.body))) = Len(ret.chunks) + 1

SongReturned == GenReturned /\ call.urls \in SongRequests /\ call.maxl = DefaultMaxLines

MarkupFree(text) ==
    \A i \in 1..Len(text) : text[i] \notin {"[", "]", "<", ">", "{", "}", ":"}

\* C8 as stated: for the song of the end-to-end scenario and max_lines 5
\* the deck holds exactly one slide block, without the chord and tag markup
\* and without the metadata line.
C8_AsStated ==
    SongReturned =>
        /\ ret.status = 200
        /\ SlideBlockCount(ret.body) = 1
        /\ MarkupFree(ret.body)

\* C8 as amended: the deck holds exactly two slide blocks, one for each of
\* the two stanzas: the lyric line without its chords and tags, then the two
\* lyric lines without the metadata line.
C8_Song ==
    SongReturned =>
        LET lines == DeckLines(ret.body)
        IN  /\ ret.status = 200
            /\ SlideBlockCount(ret.body) = 2
            /\ Len(SlideBlock(lines, 1)) = 1
            /\ Len(SlideBlock(lines, 2)) = 2
            /\ MarkupFree(ret.body)

C8_Witness ==
    /\ SongReturned
    /\ SlideBlockCount(ret.body) = 2
    /\ SlideBlock(DeckLines(ret.body), 1) = <<<<"a", "d", " ", " ">>>>
    /\ SlideBlock(DeckLines(ret.body), 2) = <<<<"d", " ", " ">>, <<"d", " ", " ">>>>

Is2xx(status) == 200 <= status /\ status < 300

\* a URL line that is not blank and whose page answers outside 2xx, or has
\* no document reference, or whose document answers outside 2xx
FetchFails(e) ==
    /\ \E i \in 1..Len(e.line) : ~IsSpace(e.line[i])
    /\ \/ ~Is2xx(e.site.page)
       \/ ~e.site.ref
       \/ ~Is2xx(e.site.doc)

\* C9: when the fetch for any URL of the request fails, the request ends in
\* a client error with a message and no deck, and no GET is made after the
\* one that failed.
C9_FetchFailure ==
    (GenReturned /\ \E i \in 1..Len(call.urls) : FetchFails(call.urls[i])) =>
        /\ 400 <= ret.status /\ ret.status < 500
        /\ ret.message # ""
        /\ ret.body = <<>>
        /\ Len(ret.fetched) <= 2 * Len(call.urls)

----------------------------------------------------------------------------
(* Claims about the builds mapping (Spec) *)

====
